---- MODULE Spec2Model ----
(***************************************************************************)
(* OIDC relying-party core of docmost: the lazily discovered client cache  *)
(* (OidcStrategy.getClient), the patched client.callback with its single   *)
(* 'iss missing' retry, OidcStrategy.validate, and the login / callback    *)
(* controller handlers with their cookie operations, driven by one browser *)
(* context; and the client gate, the useOidcAutoRedirect hook, which on     *)
(* each page decides whether to send the browser to the login endpoint.    *)
(*                                                                         *)
(* The server is a single-threaded event loop: every action is the code    *)
(* that runs between two awaits of one request's handler.                  *)
(***************************************************************************)
EXTENDS Integers, Sequences, FiniteSets, TLC

\* ------------------------------------------------------------------ bounds

\* Requests (login-initiations and callbacks) the browser sends in one run.
MaxReq == 4
\* Requests the browser has sent and has no answer to yet, at the same time.
MaxInFlight == 2
\* Runs of the gate's effect on one page (the mount and the changes of
\* location.search after it).
MaxRuns == 3

\* --------------------------------------------------------------- constants

Users == {"A", "B"}
Reqs == 1..MaxReq

RequiredFields == {"issuer", "clientId", "clientSecret", "redirectUri"}

\* this.client before the first assignment (undefined).
NoClient == 0
\* A state value no login-initiation issued.
Forged == 0

NoCookie == [user |-> "none"]
NoErr == [thrown |-> FALSE, isError |-> FALSE, message |-> ""]

Thrown(msg) == [thrown |-> TRUE, isError |-> TRUE, message |-> msg]

ConfigErr == Thrown("OIDC is not properly configured")
DiscoveryErr == Thrown("Failed to discover OIDC issuer: " \o "getaddrinfo ENOTFOUND")
EmailErr == Thrown("Email not provided by OIDC provider")
StateMismatchErr == Thrown("state mismatch")

Email(u) == IF u = "A" THEN "a@example.com" ELSE "b@example.com"

\* The optional claims of OidcProfile.
OtherClaims == {"name", "given_name", "family_name", "preferred_username"}
\* The sets of optional claims a userinfo response is drawn with.
OtherSets == {{}, OtherClaims}
\* email absent (undefined), empty, or the account's address.
Absent == "<undefined>"

VARIABLES
    config,      \* the configuration fields EnvironmentService returns non-empty
    client,      \* OidcStrategy.client: NoClient or the id of a Client object
    nObjects,    \* Client objects constructed so far (the next one is nObjects + 1)
    returned,    \* the Client objects successful getClient calls have returned
    req,         \* the requests: handler position and locals of each (gc is
                 \* the getClient call made last, until the handler goes on)
    started,     \* requests sent so far (request ids are given in order)
    pending,     \* authorization states issued and not yet consumed
    known,       \* authorization states the browser has been redirected with
    cookie,      \* the browser's authToken cookie
    last,        \* the response the browser processed last
    dropped,     \* the request abandoned last, with what it had queued
    prevCookie,  \* the cookie the browser held before that response
    completed,   \* users of the successful callbacks, in order of completion
    authAfter,   \* who protected requests authenticated as since the last of them
    search,      \* the gate's page: location.search, as its parameters in order
    isChecking,  \* the hook's isChecking state
    run,         \* the runs of checkOidcAndRedirect: position, what each read and did
    nRuns,       \* runs of the effect started so far
    storage,     \* the keys localStorage and sessionStorage hold
    href,        \* window.location.href
    unloaded,    \* the page is gone, after a navigation
    unhandled    \* rejections of checkOidcAndRedirect() nothing handles

serverVars == <<config, client, nObjects, returned, req, started, pending,
                known, cookie, last, dropped, prevCookie, completed, authAfter>>
gateVars == <<search, isChecking, run, nRuns, storage, href, unloaded, unhandled>>

vars == <<serverVars, gateVars>>

\* The discovery cache and its counters; what the browser holds and has seen.
cacheVars == <<client, nObjects, returned>>
browserVars == <<known, cookie, last, dropped, prevCookie, completed, authAfter>>

\* A getClient call: whether a call had succeeded before it started (after),
\* this.client when it started, whether it read the configuration, the
\* discoveries it started, and what it returned.
NoGc == [after |-> FALSE, start |-> NoClient, readCfg |-> FALSE, discovered |-> 0,
         result |-> NoClient]
NoCond == [iss |-> TRUE, grant |-> "ok"]
NoUserinfo == [email |-> "<no response>", others |-> {}]
NoUrl == [scope |-> "", redirect_uri |-> "", state |-> Forged, prompt |-> ""]

NoLast == [kind |-> "none", outcome |-> "none", user |-> "none"]
NoDropped == [kind |-> "none", ops |-> <<>>]

IdleReq ==
    [kind |-> "none", pc |-> "idle", ret |-> "", state |-> Forged,
     ops |-> <<>>, log |-> <<>>, outcome |-> "none", err |-> NoErr, gc |-> NoGc,
     gcCalls |-> 0, cond |-> NoCond, attempts |-> 0, firstErr |-> NoErr,
     userinfo |-> NoUserinfo, token |-> NoCookie, url |-> NoUrl,
     calls |-> <<>>]

\* Variant: only the issuer is checked.
ConfigCompleteIssuerOnly == "issuer" \in config

ConfigComplete == RequiredFields \subseteq config

\* Requests sent and not yet answered; those whose handler is still running.
InFlight == {r \in Reqs : req[r].pc \notin {"idle", "over"}}
Running == {r \in InFlight : req[r].pc # "sent"}

\* The gate's page: a query string is the sequence of its name and value
\* pairs; one run of checkOidcAndRedirect; the page before the hook mounts.
NoSearch == <<>>
AppUrl == "/login"
LoginUrl == "/api/auth/oidc/login"
EmptyStorage == [local |-> {}, session |-> {}]
IdleRun == [pc |-> "idle", search |-> NoSearch, log |-> <<>>, asked |-> FALSE,
            enabled |-> FALSE, failed |-> FALSE]
Runs == 1..MaxRuns

\* useState(true), and no run of the effect yet.
HookInit ==
    /\ isChecking = TRUE
    /\ run = [k \in Runs |-> IdleRun]
    /\ nRuns = 0
    /\ href = AppUrl
    /\ unloaded = FALSE
    /\ unhandled = 0

Init ==
    /\ HookInit
    /\ search = NoSearch
    /\ storage = EmptyStorage
    /\ config \in SUBSET RequiredFields
    /\ client = NoClient
    /\ nObjects = 0
    /\ returned = {}
    /\ req = [r \in Reqs |-> IdleReq]
    /\ started = 0
    /\ pending = {}
    /\ known = {}
    /\ cookie = NoCookie
    /\ last = NoLast
    /\ dropped = NoDropped
    /\ prevCookie = NoCookie
    /\ completed = <<>>
    /\ authAfter = {}


\* ------------------------------------------------------------ cookie ops

\* res.clearCookie('authToken') and setAuthCookie(res, authToken): Set-Cookie
\* instructions queued on the response, applied by the browser in order.
ClearOp == [op |-> "clear", token |-> NoCookie]
SetOp(t) == [op |-> "set", token |-> t]

RECURSIVE ApplyOps(_, _)
ApplyOps(c, ops) ==
    IF ops = <<>> THEN c
    ELSE ApplyOps(IF Head(ops).op = "clear" THEN NoCookie ELSE Head(ops).token,
                  Tail(ops))

OpNames(ops) == [i \in 1..Len(ops) |-> ops[i].op]

\* A handler that throws: the error response carries what the handler had
\* queued on the response before it threw, and nothing else.
Failed(rec, e) == [rec EXCEPT !.pc = "sent", !.outcome = "error", !.err = e]

\* A request that is over: the handler's locals (token set, userinfo, errors)
\* are gone.
Over == [IdleReq EXCEPT !.pc = "over"]

CanStart(r) ==
    /\ r = started + 1
    /\ r <= MaxReq
    /\ Cardinality(InFlight) < MaxInFlight

\* ------------------------------------------------ OidcStrategy.getClient

\* Variant: the cache check is missing.
CacheHitNever == FALSE

\* if (this.client) return this.client;
CacheHit == client # NoClient

\* The synchronous prefix of getClient, run by request r, which continues at
\* ret when the call returns: the cache check, then the configuration reads
\* and their check, then the start of Issuer.discover.
GetClientEnter(r, ret) ==
    /\ UNCHANGED <<client, nObjects>>
    /\ IF CacheHit
       THEN /\ req' = [req EXCEPT ![r] = [@ EXCEPT
                        !.pc = ret,
                        !.gcCalls = @ + 1,
                        !.gc = [after |-> returned # {}, start |-> client,
                                readCfg |-> FALSE, discovered |-> 0,
                                result |-> client]]]
            /\ returned' = returned \cup {client}
       ELSE IF ~ConfigComplete
       THEN /\ req' = [req EXCEPT ![r] = Failed([@ EXCEPT
                        !.gcCalls = @ + 1,
                        !.gc = [after |-> returned # {}, start |-> client,
                                readCfg |-> TRUE, discovered |-> 0,
                                result |-> NoClient]],
                        ConfigErr)]
            /\ UNCHANGED returned
       ELSE /\ req' = [req EXCEPT ![r] = [@ EXCEPT
                        !.pc = "gc_await",
                        !.ret = ret,
                        !.gcCalls = @ + 1,
                        !.gc = [after |-> returned # {}, start |-> client,
                                readCfg |-> TRUE, discovered |-> 1,
                                result |-> NoClient]]]
            /\ UNCHANGED returned

\* Issuer.discover resolved: a new Client is constructed, stored in
\* this.client, patched and returned.
DiscoverResolve(r) ==
    /\ req[r].pc = "gc_await"
    /\ nObjects' = nObjects + 1
    /\ client' = nObjects + 1
    /\ returned' = returned \cup {nObjects + 1}
    /\ req' = [req EXCEPT ![r] = [@ EXCEPT
                 !.pc = req[r].ret,
                 !.gc = [@ EXCEPT !.result = nObjects + 1]]]
    /\ UNCHANGED <<config, started, pending, browserVars>>

\* Variant: the failure is remembered: the cache is filled with a client that
\* is none, which later calls are handed without a discovery.
DiscoverRejectCached(r) ==
    /\ req[r].pc = "gc_await"
    /\ req' = [req EXCEPT ![r] = Failed(@, DiscoveryErr)]
    /\ client' = IF client = NoClient THEN -1 ELSE client
    /\ UNCHANGED <<config, nObjects, returned, started, pending, browserVars>>

\* Issuer.discover rejected (or the constructor threw): the catch rethrows
\* 'Failed to discover OIDC issuer: ...'; this.client is left as it was.
DiscoverReject(r) ==
    /\ req[r].pc = "gc_await"
    /\ req' = [req EXCEPT ![r] = Failed(@, DiscoveryErr)]
    /\ UNCHANGED <<config, cacheVars, started, pending, browserVars>>

\* ------------------------------------------------------ login-initiation

\* Variant: login does not clear the cookie.
LoginEntryOpsNone == <<>>

\* res.clearCookie('authToken'), the first statement of login.
LoginEntryOps == <<ClearOp>>

RedirectUri == "https://app.example/callback"

\* Variant: the URL as it was built before prompt was added.
AuthorizationUrlNoPrompt(state) ==
    [scope |-> "openid email profile", redirect_uri |-> RedirectUri,
     state |-> state, prompt |-> ""]

\* client.authorizationUrl({scope, redirect_uri, state, prompt}).
AuthorizationUrl(state) ==
    [scope |-> "openid email profile", redirect_uri |-> RedirectUri,
     state |-> state, prompt |-> "login"]

\* GET login arrives: the cookie is cleared on the response.
LoginBegin(r) ==
    /\ CanStart(r)
    /\ started' = r
    /\ req' = [req EXCEPT ![r] = [@ EXCEPT
                 !.kind = "login",
                 !.pc = "L_url",
                 !.ops = LoginEntryOps,
                 !.log = OpNames(LoginEntryOps)]]
    /\ UNCHANGED <<config, cacheVars, pending, browserVars>>

\* The rest of login: getAuthorizationUrl obtains the client.
LoginGetUrl(r) ==
    /\ req[r].pc = "L_url"
    /\ GetClientEnter(r, "L_build")
    /\ UNCHANGED <<config, started, pending, browserVars>>

\* The authorization URL is built around a fresh state and the redirect sent.
LoginBuildUrl(r) ==
    /\ req[r].pc = "L_build"
    /\ pending' = pending \cup {r}
    /\ req' = [req EXCEPT ![r] = [@ EXCEPT
                 !.pc = "sent",
                 !.outcome = "redirect",
                 !.state = r,
                 !.gc = NoGc,
                 !.url = AuthorizationUrl(r),
                 !.log = @ \o <<"url", "redirect">>]]
    /\ UNCHANGED <<config, cacheVars, started, browserVars>>


\* -------------------------------------------- the patched client.callback

\* String.prototype.includes.
Includes(s, t) ==
    \E i \in 1..(Len(s) - Len(t) + 1) : SubSeq(s, i, i + Len(t) - 1) = t

IssMissingErr == Thrown("iss missing from the response")
InvalidGrantErr == Thrown("invalid_grant")
RedirectMismatchErr == Thrown("invalid_request (redirect_uri mismatch)")
LibStateErr == Thrown("state mismatch")
CodeMissingErr == Thrown("code missing from response")

\* What the identity provider makes of one authorization code: whether its
\* response carries the issuer, and whether the token endpoint accepts the
\* grant, finds the code invalid, or finds the redirect URI not to match the
\* one the code was issued for.
Conds == [iss : BOOLEAN, grant : {"ok", "invalid_code", "redirect_mismatch"}]

Params(s) == [code |-> "code", state |-> s]
Checks(s) == [state |-> s]

\* The arguments of one invocation of originalCallback.
Call(redirectUri, parameters, checks) ==
    [redirectUri |-> redirectUri, parameters |-> parameters, checks |-> checks]

\* Variant: the retry's checks are built without the spread.
RetryChecksAlone(checks) == [k \in {"response_type"} |-> "code"]

\* { ...checks, response_type: 'code' }
RetryChecks(checks) ==
    [k \in DOMAIN checks \cup {"response_type"} |->
        IF k = "response_type" THEN "code" ELSE checks[k]]

\* originalCallback, the library's Client.callback bound to the client: the
\* checks object selects the state and response_type checks; no key of it
\* governs the issuer validation, which is always performed; the code is
\* then exchanged at the token endpoint.
OriginalCallback(redirectUri, parameters, checks, cond) ==
    IF "state" \in DOMAIN checks /\ parameters.state # checks["state"]
    THEN [ok |-> FALSE, err |-> LibStateErr]
    ELSE IF ~cond.iss
    THEN [ok |-> FALSE, err |-> IssMissingErr]
    ELSE IF "response_type" \in DOMAIN checks
            /\ checks["response_type"] = "code"
            /\ "code" \notin DOMAIN parameters
    THEN [ok |-> FALSE, err |-> CodeMissingErr]
    ELSE IF cond.grant = "invalid_code"
    THEN [ok |-> FALSE, err |-> InvalidGrantErr]
    ELSE IF cond.grant = "redirect_mismatch" \/ redirectUri # RedirectUri
    THEN [ok |-> FALSE, err |-> RedirectMismatchErr]
    ELSE [ok |-> TRUE, err |-> NoErr]

\* Variant: the catch retries on every Error, whatever its message.
RetryOnAnyError(e) == e.isError

\* error instanceof Error && error.message.includes('iss missing')
RetrySignature(e) == e.isError /\ Includes(e.message, "iss missing")

\* ------------------------------------------------ OidcStrategy.validate

\* Variant: only an undefined email is refused (userinfo.email === undefined).
EmailUndefinedOnly(ui) == ui.email = Absent

\* !userinfo.email
EmailMissing(ui) == ui.email = Absent \/ ui.email = ""

\* The userinfo responses the provider may give: the account is that of one
\* of the users, and its email claim may be absent or empty.
UserinfoResponses ==
    [email : {Absent, ""} \cup {Email(u) : u \in Users}, others : OtherSets]

\* The local user record an email address joins to; one is created for an
\* address no record has.
ResolveUser(email) ==
    IF \E u \in Users : Email(u) = email
    THEN CHOOSE u \in Users : Email(u) = email
    ELSE "new"

\* ---------------------------------------------------- callback completion

\* Variant: the callback clears the cookie on arrival, as login does.
CallbackEntryOpsClear == <<ClearOp>>

\* The callback handler queues nothing on the response before handleCallback
\* has resolved.
CallbackEntryOps == <<>>

\* Variants: the clear is left out; the clear comes after the set.
CommitOpsNoClear(token) == <<SetOp(token)>>
CommitOpsSetThenClear(token) == <<SetOp(token), ClearOp>>

\* res.clearCookie('authToken'); this.setAuthCookie(res, authToken);
CallbackCommitOps(token) == <<ClearOp, SetOp(token)>>

\* Variant: a state is accepted whenever it was issued, consumed or not.
StateAcceptedReplay(s) == s \in known

\* The state a callback presents is one a login issued and no callback has
\* consumed.
StateAccepted(s) == s \in pending

\* GET callback arrives with a code and state s: handleCallback checks s
\* against the issued states and consumes it.
CallbackBegin(r, s) ==
    /\ CanStart(r)
    /\ s \in known \cup {Forged}
    /\ started' = r
    /\ IF StateAccepted(s)
       THEN /\ pending' = pending \ {s}
            /\ req' = [req EXCEPT ![r] = [@ EXCEPT
                         !.kind = "callback",
                         !.pc = "C_client",
                         !.state = s,
                         !.ops = CallbackEntryOps,
                         !.log = OpNames(CallbackEntryOps) \o <<"state_ok">>]]
       ELSE /\ pending' = pending
            /\ req' = [req EXCEPT ![r] = Failed([@ EXCEPT
                         !.kind = "callback",
                         !.state = s,
                         !.ops = CallbackEntryOps,
                         !.log = OpNames(CallbackEntryOps)],
                         StateMismatchErr)]
    /\ UNCHANGED <<config, cacheVars, browserVars>>

\* handleCallback obtains the client.
CallbackGetClient(r) ==
    /\ req[r].pc = "C_client"
    /\ GetClientEnter(r, "C_exchange")
    /\ UNCHANGED <<config, started, pending, browserVars>>

\* client.callback, first attempt: originalCallback(redirectUri, parameters,
\* checks); on the 'iss missing' signature the catch goes on to the retry,
\* any other error is rethrown.
CallbackExchange(r, cond) ==
    /\ req[r].pc = "C_exchange"
    /\ LET res == OriginalCallback(RedirectUri, Params(req[r].state),
                                   Checks(req[r].state), cond)
           rec == [req[r] EXCEPT !.cond = cond, !.attempts = 1,
                                 !.firstErr = res.err, !.gc = NoGc,
                                 !.calls = <<Call(RedirectUri, Params(req[r].state),
                                                  Checks(req[r].state))>>]
       IN  req' = [req EXCEPT ![r] =
                IF res.ok
                THEN [rec EXCEPT !.pc = "C_validate",
                                 !.log = @ \o <<"exchange_ok">>]
                ELSE IF RetrySignature(res.err)
                THEN [rec EXCEPT !.pc = "C_retry"]
                ELSE Failed(rec, res.err)]
    /\ UNCHANGED <<config, cacheVars, started, pending, browserVars>>

\* client.callback, the retry: originalCallback(redirectUri, parameters,
\* { ...checks, response_type: 'code' }); its error is not caught.
CallbackRetry(r) ==
    /\ req[r].pc = "C_retry"
    /\ LET first == req[r].calls[1]
           again == Call(first.redirectUri, first.parameters,
                         RetryChecks(first.checks))
           res == OriginalCallback(again.redirectUri, again.parameters,
                                   again.checks, req[r].cond)
           rec == [req[r] EXCEPT !.attempts = 2, !.calls = Append(@, again)]
       IN  req' = [req EXCEPT ![r] =
                IF res.ok
                THEN [rec EXCEPT !.pc = "C_validate",
                                 !.log = @ \o <<"exchange_ok">>]
                ELSE Failed(rec, res.err)]
    /\ UNCHANGED <<config, cacheVars, started, pending, browserVars>>

\* validate(tokenSet): const client = await this.getClient();
CallbackValidate(r) ==
    /\ req[r].pc = "C_validate"
    /\ GetClientEnter(r, "C_userinfo")
    /\ UNCHANGED <<config, started, pending, browserVars>>

\* validate(tokenSet): the userinfo response arrives; without an email it
\* throws, otherwise the response is returned as the profile.
CallbackUserinfo(r, ui) ==
    /\ req[r].pc = "C_userinfo"
    /\ ui \in UserinfoResponses
    /\ req' = [req EXCEPT ![r] =
                IF EmailMissing(ui)
                THEN Failed([@ EXCEPT !.userinfo = ui,
                                      !.gc = NoGc,
                                      !.log = @ \o <<"userinfo">>], EmailErr)
                ELSE [@ EXCEPT !.pc = "C_resolve",
                               !.userinfo = ui,
                               !.gc = NoGc,
                               !.log = @ \o <<"userinfo", "email_ok">>]]
    /\ UNCHANGED <<config, cacheVars, started, pending, browserVars>>

\* handleCallback resolves the local user by email and signs the authToken.
CallbackResolve(r) ==
    /\ req[r].pc = "C_resolve"
    /\ req' = [req EXCEPT ![r] = [@ EXCEPT
                 !.pc = "C_commit",
                 !.token = [user |-> ResolveUser(req[r].userinfo.email)],
                 !.userinfo = NoUserinfo,
                 !.log = @ \o <<"user_resolved">>]]
    /\ UNCHANGED <<config, cacheVars, started, pending, browserVars>>

\* handleCallback has returned the authToken: the controller clears the
\* cookie, sets the new one and redirects home.
CallbackCommit(r) ==
    /\ req[r].pc = "C_commit"
    /\ req' = [req EXCEPT ![r] = [@ EXCEPT
                 !.pc = "sent",
                 !.outcome = "ok",
                 !.ops = @ \o CallbackCommitOps(req[r].token),
                 !.log = @ \o OpNames(CallbackCommitOps(req[r].token))]]
    /\ UNCHANGED <<config, cacheVars, started, pending, browserVars>>

\* ------------------------------------------------------------ the browser

\* The browser receives the response of r and applies its cookie operations;
\* a redirect to the provider hands it the state.
Deliver(r) ==
    /\ req[r].pc = "sent"
    /\ cookie' = ApplyOps(cookie, req[r].ops)
    /\ prevCookie' = cookie
    /\ last' = [kind |-> req[r].kind, outcome |-> req[r].outcome,
                user |-> req[r].token.user]
    /\ known' = IF req[r].outcome = "redirect" THEN known \cup {req[r].state}
                ELSE known
    /\ req' = [req EXCEPT ![r] = Over]
    /\ IF req[r].kind = "callback" /\ req[r].outcome = "ok"
       THEN /\ completed' = Append(completed, req[r].token.user)
            /\ authAfter' = {}
       ELSE UNCHANGED <<completed, authAfter>>
    /\ UNCHANGED <<config, cacheVars, started, pending, dropped>>

\* The request is abandoned before its handler has finished: the handler
\* goes no further and no response reaches the browser.
Abandon(r) ==
    /\ r \in Running
    /\ dropped' = [kind |-> req[r].kind, ops |-> req[r].ops]
    /\ req' = [req EXCEPT ![r] = Over]
    /\ UNCHANGED <<config, cacheVars, started, pending, known, cookie, last,
                   prevCookie, completed, authAfter>>

\* The browser sends a protected request: it authenticates as the user the
\* cookie it holds is bound to.
ProtectedRequest ==
    /\ cookie # NoCookie
    /\ cookie.user \notin authAfter
    /\ authAfter' = authAfter \cup {cookie.user}
    /\ UNCHANGED <<config, cacheVars, req, started, pending, known, cookie,
                   last, dropped, prevCookie, completed>>

\* --------------------------------------------------------- the client gate

\* The query strings the page is loaded or moved to: none, an error from the
\* callback, an error parameter with no value, a code followed by an error.
Searches ==
    {NoSearch,
     <<<<"error", "access_denied">>>>,
     <<<<"error", "">>>>,
     <<<<"code", "abc">>, <<"error", "server_error">>>>}

\* What the storages hold when the page loads.
Storages == [local : SUBSET {"currentUser"}, session : SUBSET {"draft"}]

Null == "<null>"

\* URLSearchParams.get: the value of the first parameter of that name, or null.
ParamsGet(s, name) ==
    IF \E i \in 1..Len(s) : s[i][1] = name
    THEN s[CHOOSE i \in 1..Len(s) :
              /\ s[i][1] = name
              /\ \A j \in 1..(i - 1) : s[j][1] # name][2]
    ELSE Null

\* Variant: the error parameter is not looked at.
ErrorIndicatorNever(s) == FALSE

\* if (params.get("error")): a non-empty value.
ErrorIndicator(s) == ParamsGet(s, "error") \notin {Null, ""}

\* What getOidcStatus may resolve with: a status, enabled or not, or no body
\* at all (reading .enabled of it throws).
StatusBodies == [defined : BOOLEAN, enabled : BOOLEAN]

\* setIsChecking(false); return;  (the error branch)
ErrorOps == <<"setIsChecking(false)">>

\* Variant: the redirect without the clears.
EnabledOpsNoClear == <<"navigate">>

\* Variant: the return after the redirect is missing.
EnabledOpsNoReturn ==
    <<"localStorage.clear", "sessionStorage.clear", "navigate",
      "setIsChecking(false)">>

\* localStorage.clear(); sessionStorage.clear();
\* window.location.href = getOidcLoginUrl(); return;
EnabledOps == <<"localStorage.clear", "sessionStorage.clear", "navigate">>

\* Variant: the catch logs and rethrows.
CatchOpsRethrow == <<"console.error", "throw">>

\* catch (error) { console.error(...) }
CatchOps == <<"console.error">>

\* setIsChecking(false), the last statement of checkOidcAndRedirect.
FinishOps == <<"setIsChecking(false)">>

\* What the statements of a run do to the page, in order.
RECURSIVE DoOps(_, _)
DoOps(w, ops) ==
    IF ops = <<>> THEN w
    ELSE DoOps(
           CASE Head(ops) = "localStorage.clear" -> [w EXCEPT !.local = {}]
             [] Head(ops) = "sessionStorage.clear" -> [w EXCEPT !.session = {}]
             [] Head(ops) = "navigate" -> [w EXCEPT !.href = LoginUrl]
             [] Head(ops) = "setIsChecking(false)" -> [w EXCEPT !.isChecking = FALSE]
             [] Head(ops) = "throw" -> [w EXCEPT !.unhandled = @ + 1]
             [] OTHER -> w,
           Tail(ops))

Page ==
    [local |-> storage.local, session |-> storage.session, href |-> href,
     isChecking |-> isChecking, unhandled |-> unhandled]

\* Run k executes ops and returns.
Finish(k, rec, ops) ==
    LET w == DoOps(Page, ops)
    IN  /\ storage' = [local |-> w.local, session |-> w.session]
        /\ href' = w.href
        /\ isChecking' = w.isChecking
        /\ unhandled' = w.unhandled
        /\ run' = [run EXCEPT ![k] = [rec EXCEPT !.pc = "done", !.log = @ \o ops]]

\* Whether the statements end in a throw.
Throws(ops) == \E i \in 1..Len(ops) : ops[i] = "throw"

\* The statements after the await, for the body the status resolved with:
\* reading status.enabled of no body throws into the catch; after the catch,
\* unless it threw, the last statement runs.
AfterStatus(body) ==
    IF ~body.defined
    THEN CatchOps \o (IF Throws(CatchOps) THEN <<>> ELSE FinishOps)
    ELSE IF body.enabled THEN EnabledOps
    ELSE FinishOps

\* The same for a status request that was rejected.
AfterReject ==
    CatchOps \o (IF Throws(CatchOps) THEN <<>> ELSE FinishOps)

\* The effect runs, on mount with the search the page was loaded with and
\* then on every change of location.search: checkOidcAndRedirect up to its
\* await.
EffectRun(s) ==
    /\ nRuns < MaxRuns
    /\ ~unloaded /\ href = AppUrl
    /\ IF nRuns = 0 THEN s = search ELSE s # search
    /\ search' = s
    /\ nRuns' = nRuns + 1
    /\ IF ErrorIndicator(s)
       THEN Finish(nRuns + 1, [IdleRun EXCEPT !.search = s], ErrorOps)
       ELSE /\ run' = [run EXCEPT ![nRuns + 1] =
                        [IdleRun EXCEPT !.pc = "await", !.search = s,
                                        !.asked = TRUE,
                                        !.log = <<"getOidcStatus">>]]
            /\ UNCHANGED <<isChecking, storage, href, unhandled>>
    /\ UNCHANGED <<serverVars, unloaded>>

\* getOidcStatus resolved with body.
StatusResolve(k, body) ==
    /\ run[k].pc = "await"
    /\ ~unloaded
    /\ Finish(k, [run[k] EXCEPT !.enabled = body.defined /\ body.enabled,
                                !.failed = ~body.defined],
              AfterStatus(body))
    /\ UNCHANGED <<serverVars, search, nRuns, unloaded>>

\* getOidcStatus rejected.
StatusReject(k) ==
    /\ run[k].pc = "await"
    /\ ~unloaded
    /\ Finish(k, [run[k] EXCEPT !.failed = TRUE], AfterReject)
    /\ UNCHANGED <<serverVars, search, nRuns, unloaded>>

\* The navigation takes the page away: the runs still waiting are gone with it.
Unload ==
    /\ href = LoginUrl
    /\ ~unloaded
    /\ unloaded' = TRUE
    /\ run' = [k \in Runs |->
                 IF run[k].pc = "await" THEN [run[k] EXCEPT !.pc = "gone"]
                 ELSE run[k]]
    /\ UNCHANGED <<serverVars, search, isChecking, nRuns, storage, href, unhandled>>

\* ---------------------------------------------------------- specification

\* The positions a handler is at when its next step waits on nothing: the
\* await of a getClient call not yet made, which runs at once up to its cache
\* check, and the return into a caller. The event loop runs such a
\* continuation to the handler's next wait before it handles any other event.
Microtasks == {"L_url", "L_build", "C_client", "C_validate", "C_commit"}
Quiet == \A r \in Reqs : req[r].pc \notin Microtasks

Next ==
    \/ Quiet /\ \E r \in Reqs : LoginBegin(r) /\ UNCHANGED gateVars
    \/ \E r \in Reqs : LoginGetUrl(r) /\ UNCHANGED gateVars
    \/ \E r \in Reqs : LoginBuildUrl(r) /\ UNCHANGED gateVars
    \/ Quiet /\ \E r \in Reqs, s \in Reqs \cup {Forged} :
                   CallbackBegin(r, s) /\ UNCHANGED gateVars
    \/ \E r \in Reqs : CallbackGetClient(r) /\ UNCHANGED gateVars
    \/ Quiet /\ \E r \in Reqs, cond \in Conds :
                   CallbackExchange(r, cond) /\ UNCHANGED gateVars
    \/ Quiet /\ \E r \in Reqs : CallbackRetry(r) /\ UNCHANGED gateVars
    \/ \E r \in Reqs : CallbackValidate(r) /\ UNCHANGED gateVars
    \/ Quiet /\ \E r \in Reqs, ui \in UserinfoResponses :
                   CallbackUserinfo(r, ui) /\ UNCHANGED gateVars
    \/ Quiet /\ \E r \in Reqs : CallbackResolve(r) /\ UNCHANGED gateVars
    \/ \E r \in Reqs : CallbackCommit(r) /\ UNCHANGED gateVars
    \/ Quiet /\ \E r \in Reqs : DiscoverResolve(r) /\ UNCHANGED gateVars
    \/ Quiet /\ \E r \in Reqs : DiscoverReject(r) /\ UNCHANGED gateVars
    \/ Quiet /\ \E r \in Reqs : Deliver(r) /\ UNCHANGED gateVars
    \/ Quiet /\ \E r \in Reqs : Abandon(r) /\ UNCHANGED gateVars
    \/ Quiet /\ ProtectedRequest /\ UNCHANGED gateVars

Spec == Init /\ [][Next]_vars

\* The gate alone, on a page loaded with any of the query strings and
\* storages, against a server that stays as it started.
GateInit ==
    /\ HookInit
    /\ search \in Searches
    /\ storage \in Storages
    /\ config = RequiredFields
    /\ client = NoClient
    /\ nObjects = 0
    /\ returned = {}
    /\ req = [r \in Reqs |-> IdleReq]
    /\ started = 0
    /\ pending = {}
    /\ known = {}
    /\ cookie = NoCookie
    /\ last = NoLast
    /\ dropped = NoDropped
    /\ prevCookie = NoCookie
    /\ completed = <<>>
    /\ authAfter = {}

GateNext ==
    \/ \E s \in Searches : EffectRun(s)
    \/ \E k \in Runs, body \in StatusBodies : StatusResolve(k, body)
    \/ \E k \in Runs : StatusReject(k)
    \/ Unload

SpecGate == GateInit /\ [][GateNext]_vars

\* Every status request settles, and a navigation takes the page away.
GateFairness ==
    /\ \A k \in Runs :
          WF_vars(StatusReject(k) \/ \E body \in StatusBodies : StatusResolve(k, body))
    /\ WF_vars(Unload)

SpecGateLive == SpecGate /\ GateFairness


\* ================================================================ claims

Callbacks == {r \in Reqs : req[r].kind = "callback"}
Logins == {r \in Reqs : req[r].kind = "login"}

Has(seq, x) == \E i \in 1..Len(seq) : seq[i] = x
Pos(seq, x) == CHOOSE i \in 1..Len(seq) : seq[i] = x

\* C1: once a callback has completed, the browser's cookie is bound to the
\* user of that callback (B after A then B), and from then until the next
\* callback completes the cookie is that user's or none, and no protected
\* request authenticates as anyone else (never as A).
C1_NoCrossUserLeak ==
    /\ (last.kind = "callback" /\ last.outcome = "ok")
          => cookie = [user |-> last.user]
    /\ completed # <<>> =>
          /\ last.kind = "callback" /\ last.outcome = "ok"
                => last.user = completed[Len(completed)]
          /\ cookie.user \in {"none", completed[Len(completed)]}
          /\ authAfter \subseteq {completed[Len(completed)]}

\* A's callback completed, then B's, and a protected request followed.
C1_Witness ==
    /\ completed = <<"A", "B">>
    /\ last = [kind |-> "callback", outcome |-> "ok", user |-> "B"]
    /\ cookie = [user |-> "B"]
    /\ authAfter = {"B"}

\* C2: discovery is coalesced: at most one Issuer.discover is in flight at a
\* time and at most one discovery ever completes, however many getClient
\* calls run at the same time on an empty cache.
C2_DiscoveryAtMostOnce ==
    /\ Cardinality({r \in Reqs : req[r].pc = "gc_await"}) <= 1
    /\ nObjects <= 1

\* C3: every successful getClient call returns the same Client object, and
\* the cached client is the one that was returned.
C3_SameClientForAll ==
    /\ Cardinality(returned) <= 1
    /\ returned # {} => returned = {client}

\* C4: a getClient call that starts after a call has succeeded returns the
\* client cached at its start, at once, without a discovery and without
\* reading the configuration; and the cache, once filled, is never empty.
C4_CachedAfterFirstSuccess ==
    /\ returned # {} => client # NoClient
    /\ \A r \in Reqs :
          req[r].gc.after =>
             /\ req[r].gc.start # NoClient
             /\ req[r].gc.result = req[r].gc.start
             /\ req[r].gc.discovered = 0
             /\ ~req[r].gc.readCfg
             /\ req[r].pc # "gc_await"

\* A call that started after another had succeeded has returned.
C4_Witness ==
    \E r \in Reqs : req[r].gc.after /\ req[r].gc.result # NoClient
                    /\ req[r].gcCalls = 2


\* The 'iss missing' signature, spelled out.
IsIssMissing(e) == e.thrown /\ e.isError /\ Includes(e.message, "iss missing")

\* Callbacks whose exchange has been attempted; those it failed for.
Exchanged == {r \in Callbacks : req[r].attempts >= 1}
ExchangeFailed ==
    {r \in Exchanged : req[r].pc = "sent" /\ ~Has(req[r].log, "exchange_ok")}

\* What the retry throws for request r.
RetryErrOf(r) ==
    OriginalCallback(RedirectUri, Params(req[r].state),
                     RetryChecks(Checks(req[r].state)), req[r].cond).err

\* C5: the exchange is attempted a second time exactly when the first attempt
\* threw an Error whose message includes 'iss missing', and never a third
\* time; any other error of the first attempt, and the error of the retry,
\* reaches the caller as thrown and ends the callback.
C5_RetryOnlyOnIssMissing ==
    \A r \in Exchanged :
       /\ req[r].attempts <= 2
       /\ (req[r].pc = "C_retry" \/ req[r].attempts = 2)
             <=> IsIssMissing(req[r].firstErr)
       /\ req[r].pc = "C_retry" => req[r].attempts = 1
       /\ (req[r].firstErr.thrown /\ ~IsIssMissing(req[r].firstErr)) =>
             /\ r \in ExchangeFailed
             /\ req[r].attempts = 1
             /\ req[r].outcome = "error"
             /\ req[r].err = req[r].firstErr
       /\ req[r].attempts = 2 =>
             /\ r \in ExchangeFailed
             /\ req[r].outcome = "error"
             /\ req[r].err = RetryErrOf(r)

\* One callback failed on another error without a retry, another was retried
\* once and failed again.
C5_Witness ==
    /\ \E r \in ExchangeFailed :
          req[r].attempts = 1 /\ req[r].err = InvalidGrantErr
    /\ \E r \in ExchangeFailed :
          req[r].attempts = 2 /\ IsIssMissing(req[r].firstErr)

\* C6: an exchange whose response lacks only the issuer succeeds through the
\* retry; one with an invalid code or a mismatched redirect URI fails.
C6_FallbackScope ==
    \A r \in Exchanged :
       req[r].pc \notin {"C_exchange", "C_retry"} =>
          /\ req[r].cond = [iss |-> FALSE, grant |-> "ok"]
                => r \notin ExchangeFailed
          /\ req[r].cond.grant # "ok" => r \in ExchangeFailed

\* C7: validate returns the userinfo response as the profile only when its
\* email is non-empty; with the email absent or empty, whatever the other
\* claims, the callback fails with the missing-email error, no token is
\* issued and nothing is queued on the response.
C7_EmailRequired ==
    \A r \in Callbacks :
       /\ req[r].userinfo # NoUserinfo =>
             IF req[r].userinfo.email \in {Absent, ""}
             THEN /\ req[r].pc = "sent"
                  /\ req[r].outcome = "error"
                  /\ req[r].err = EmailErr
                  /\ req[r].token = NoCookie
                  /\ req[r].ops = <<>>
             ELSE /\ req[r].pc = "C_resolve"
                  /\ req[r].outcome = "none"
       /\ req[r].token # NoCookie => Has(req[r].log, "email_ok")

\* Two callbacks were refused for the email, one with every other claim
\* present and an empty email, one with no claim at all.
C7_Witness ==
    /\ \E r \in Callbacks :
          /\ req[r].userinfo = [email |-> "", others |-> OtherClaims]
          /\ req[r].err = EmailErr
    /\ \E r \in Callbacks :
          /\ req[r].userinfo = [email |-> Absent, others |-> {}]
          /\ req[r].err = EmailErr

\* C8: every login has the clear queued on its response from its first step
\* on, before the URL is built and the redirect sent; and once the browser
\* has a login's response, redirect or error, it holds no session.
C8_LoginClearsFirst ==
    /\ \A r \in Logins :
          /\ req[r].ops = <<ClearOp>>
          /\ req[r].log # <<>> /\ Head(req[r].log) = "clear"
          /\ Has(req[r].log, "url") =>
                /\ Pos(req[r].log, "clear") < Pos(req[r].log, "url")
                /\ Pos(req[r].log, "url") < Pos(req[r].log, "redirect")
          /\ req[r].url # NoUrl => Has(req[r].log, "url")
    /\ dropped.kind = "login" => dropped.ops = <<ClearOp>>
    /\ last.kind = "login" => cookie = NoCookie

\* The browser held a session, and the response of a login whose redirect was
\* never built (an error response) took it away.
C8_Witness ==
    /\ last.kind = "login"
    /\ last.outcome = "error"
    /\ prevCookie # NoCookie
    /\ cookie = NoCookie

\* C9: a callback sets the cookie only as the last of these steps, in this
\* order: state check, exchange, userinfo, email check, user resolution,
\* clear, set; its response then carries the clear followed by the set of
\* the token of the resolved user, and nothing else.
C9_ValidateClearSet ==
    \A r \in Callbacks :
       /\ (Has(req[r].log, "set") \/ \E i \in 1..Len(req[r].ops) : req[r].ops[i].op = "set")
            => /\ req[r].log = <<"state_ok", "exchange_ok", "userinfo", "email_ok",
                                 "user_resolved", "clear", "set">>
               /\ req[r].token # NoCookie
               /\ req[r].ops = <<ClearOp, SetOp(req[r].token)>>
               /\ req[r].outcome = "ok"
       /\ req[r].outcome = "ok" => Has(req[r].log, "set")

\* A callback has queued the clear and the set.
C9_Witness ==
    \E r \in Callbacks : req[r].pc = "sent" /\ req[r].outcome = "ok"

\* C10: a callback that failed, or was abandoned before it finished, has
\* queued no cookie operation and issued no token, and the response of a
\* failed callback leaves the browser's cookie as it was.
C10_FailureTouchesNoCookie ==
    /\ \A r \in Callbacks :
          req[r].outcome # "ok" => req[r].ops = <<>>
    /\ \A r \in Callbacks :
          req[r].outcome = "error" => req[r].token = NoCookie
    /\ dropped.kind = "callback" => dropped.ops = <<>>
    /\ (last.kind = "callback" /\ last.outcome = "error")
          => cookie = prevCookie /\ last.user = "none"

\* Login cleared the cookie, a callback was abandoned in mid-flight and the
\* response of a failed one has reached the browser.
C10_Witness ==
    /\ last.kind = "callback"
    /\ last.outcome = "error"
    /\ dropped.kind = "callback"
    /\ cookie = NoCookie

\* The positions of the set operations queued on a response.
SetsOf(ops) == {i \in 1..Len(ops) : ops[i].op = "set"}

\* Callbacks refused for a state that had been issued and was consumed before.
Replayed ==
    {r \in Callbacks : /\ req[r].err = StateMismatchErr
                       /\ req[r].state # Forged
                       /\ req[r].state \in known}

\* C11: the browser holds at most one session cookie: a response sets the
\* cookie at most once and only right after clearing the one before; after a
\* login, and so after two in a row, the browser holds none; a callback that
\* replays a consumed state queues nothing, and its response leaves the one
\* cookie of the first callback as it was.
C11_AtMostOneSession ==
    /\ \A r \in Reqs :
          /\ Cardinality(SetsOf(req[r].ops)) <= 1
          /\ \A i \in SetsOf(req[r].ops) :
                i > 1 /\ req[r].ops[i - 1] = ClearOp
    /\ cookie \in {NoCookie} \cup {[user |-> u] : u \in Users}
    /\ last.kind = "login" => cookie = NoCookie
    /\ \A r \in Replayed : req[r].ops = <<>> /\ req[r].token = NoCookie
    /\ (last.kind = "callback" /\ last.outcome = "error") => cookie = prevCookie

\* A callback completed and gave the browser its session; a second callback
\* replaying the same state has been refused, and the browser still holds
\* that one session.
C11_Witness ==
    /\ last.kind = "callback" /\ last.outcome = "ok"
    /\ cookie = [user |-> last.user]
    /\ Cardinality(known) = 1
    /\ \E r \in Replayed : req[r].pc = "sent"

\* Callbacks whose state was accepted.
Accepted == {r \in Callbacks : Has(req[r].log, "state_ok")}

\* What becomes of a callback arriving in this step: its state is accepted
\* only if it is issued and unconsumed, and is consumed at once; otherwise the
\* callback ends there with the state-mismatch error.
C12_Arrival ==
    \A r \in Reqs :
       (req[r].pc = "idle" /\ req'[r].kind = "callback") =>
          IF req'[r].state \in pending
          THEN /\ req'[r].pc = "C_client"
               /\ pending' = pending \ {req'[r].state}
          ELSE /\ req'[r].pc = "sent"
               /\ req'[r].outcome = "error"
               /\ req'[r].err = StateMismatchErr
               /\ pending' = pending

\* A state is issued once, by the login that builds its URL, and no other
\* step adds to the issued states.
C12_IssuedOnce ==
    \A s \in pending' \ pending :
       /\ s \notin known
       /\ req[s].pc = "L_build" /\ req'[s].pc = "sent"

\* C12: a callback whose state was never issued, or was consumed by an
\* earlier callback, ends with the state-mismatch error with no getClient
\* call, no exchange attempt, no token and nothing queued on the response;
\* a state is consumed when it is accepted and never issued again, so that it
\* is accepted by at most one callback.
C12_StateSingleUse ==
    /\ [](\A r \in Callbacks :
            /\ r \notin Accepted =>
                 /\ req[r].pc = "sent"
                 /\ req[r].err = StateMismatchErr
                 /\ req[r].gcCalls = 0
                 /\ req[r].attempts = 0
                 /\ req[r].token = NoCookie
                 /\ req[r].ops = <<>>
            /\ r \in Accepted =>
                 /\ req[r].state # Forged
                 /\ req[r].state \notin pending
                 /\ \A q \in Accepted : q # r => req[q].state # req[r].state)
    /\ [][C12_Arrival /\ C12_IssuedOnce]_vars

\* A forged state and a replayed one have both been refused, the replayed one
\* after the callback that consumed it had completed.
C12_Witness ==
    /\ completed # <<>>
    /\ \E r \in Replayed : req[r].pc = "sent"
    /\ \E r \in Callbacks : req[r].state = Forged /\ req[r].err = StateMismatchErr

\* Logins whose redirect has been built.
Redirected == {r \in Logins : req[r].outcome = "redirect"}

\* C13: the authorization URL a login redirects to is built only under a
\* complete configuration, and carries prompt=login, the scope 'openid email
\* profile', the configured redirect URI and the state issued for that login,
\* unchanged, whatever the state.
C13_AuthorizationUrl ==
    \A r \in Logins :
       /\ r \in Redirected <=> req[r].url # NoUrl
       /\ r \in Redirected =>
             /\ ConfigComplete
             /\ req[r].url.prompt = "login"
             /\ req[r].url.scope = "openid email profile"
             /\ req[r].url.redirect_uri = RedirectUri
             /\ req[r].url.state = req[r].state
             /\ req[r].state = r
             /\ DOMAIN req[r].url = {"scope", "redirect_uri", "state", "prompt"}

\* Two logins have been redirected, each with its own state.
C13_Witness ==
    \E r, q \in Redirected : req[r].url.state # req[q].url.state

\* A query string with an error parameter that has a value.
HasErrorParam(s) == \E i \in 1..Len(s) : s[i][1] = "error" /\ s[i][2] # ""

\* The runs of the check that have started; the run that starts in this step.
Started == {k \in Runs : run[k].pc # "idle"}
Starting(k) == run[k].pc = "idle" /\ run'[k].pc # "idle"

Settling(k) == run[k].pc = "await" /\ run'[k].pc = "done"

\* C15: a run on a URL without an error indicator whose status reports
\* enabled clears localStorage, then sessionStorage, then navigates to the
\* login endpoint, and does nothing else; no run navigates without both
\* clears before it, no run clears unless its status reported enabled, and
\* the storages and the location change in no other step.
C15_ClearThenNavigate ==
    /\ [](\A k \in Started :
            /\ run[k].enabled =>
                 /\ ~HasErrorParam(run[k].search)
                 /\ run[k].log = <<"getOidcStatus", "localStorage.clear",
                                   "sessionStorage.clear", "navigate">>
                 /\ href = LoginUrl
                 /\ storage = EmptyStorage
            /\ Has(run[k].log, "navigate") =>
                 /\ Has(run[k].log, "localStorage.clear")
                 /\ Has(run[k].log, "sessionStorage.clear")
                 /\ Pos(run[k].log, "localStorage.clear") < Pos(run[k].log, "navigate")
                 /\ Pos(run[k].log, "sessionStorage.clear") < Pos(run[k].log, "navigate")
            /\ (Has(run[k].log, "localStorage.clear")
                  \/ Has(run[k].log, "sessionStorage.clear")) => run[k].enabled)
    /\ [][(storage' # storage \/ href' # href) =>
            \E k \in Runs : /\ Settling(k)
                            /\ run'[k].enabled
                            /\ storage' = EmptyStorage
                            /\ href' = LoginUrl]_vars

\* On a page loaded without an error indicator the status came back enabled:
\* the storages are empty and the location is the login endpoint.
C15_Witness ==
    /\ nRuns = 1
    /\ run[1].search = NoSearch
    /\ run[1].enabled
    /\ run[1].pc = "done"
    /\ storage = EmptyStorage
    /\ href = LoginUrl

\* Requests whose getClient call got as far as reading the configuration.
ReadConfig == {r \in Reqs : req[r].gc.readCfg}

\* C16: with a required configuration field missing (the cache is then
\* empty), a getClient call fails with the configuration error, starts no
\* discovery and returns no client, and the cache stays empty: no discovery
\* is ever in flight and no Client is ever built.
C16_ConfigErrorNoDiscovery ==
    RequiredFields \ config # {} =>
       /\ client = NoClient
       /\ nObjects = 0
       /\ returned = {}
       /\ \A r \in Reqs : req[r].pc # "gc_await"
       /\ \A r \in Reqs :
             req[r].gcCalls > 0 =>
                /\ req[r].gcCalls = 1
                /\ r \in ReadConfig
                /\ req[r].gc.start = NoClient
                /\ req[r].gc.discovered = 0
                /\ req[r].gc.result = NoClient
                /\ req[r].pc = "sent"
                /\ req[r].outcome = "error"
                /\ req[r].err = ConfigErr

\* With only the redirect URI missing, one login has failed and been answered
\* and the next has failed on the configuration in the same way.
C16_Witness ==
    /\ config = RequiredFields \ {"redirectUri"}
    /\ last.kind = "login" /\ last.outcome = "error"
    /\ \E r \in Logins \cap ReadConfig : req[r].err = ConfigErr

\* The getClient call of r fails on its discovery in this step.
DiscoveryFails(r) == req[r].pc = "gc_await" /\ req'[r].pc = "sent"

\* C17: a getClient call whose discovery fails ends with the discovery error
\* after the one discovery it started, and leaves the cache as it was, empty
\* if it was empty; the cache never holds anything but a client a successful
\* discovery produced, so that a later call on an empty cache, whatever
\* failed before it, reads the configuration and starts a discovery of its
\* own.
C17_DiscoveryFailureNotCached ==
    /\ [](/\ client # NoClient => client \in returned /\ client \in 1..nObjects
          /\ \A r \in Reqs :
                /\ req[r].err = DiscoveryErr =>
                     /\ req[r].pc = "sent"
                     /\ req[r].outcome = "error"
                     /\ req[r].gc.discovered = 1
                     /\ req[r].gc.result = NoClient
                /\ (req[r].gcCalls > 0 /\ req[r].gc.readCfg /\ ConfigComplete) =>
                     /\ req[r].gc.start = NoClient
                     /\ req[r].gc.discovered = 1)
    /\ [][\A r \in Reqs :
            DiscoveryFails(r) =>
               /\ req'[r].err = DiscoveryErr
               /\ client' = client
               /\ nObjects' = nObjects
               /\ returned' = returned]_vars
    /\ [][\A r \in Reqs :
            (req[r].pc \in {"L_url", "C_client", "C_validate"}
                /\ req'[r].pc # req[r].pc /\ req'[r].kind # "none"
                /\ client = NoClient /\ ConfigComplete) =>
               /\ req'[r].pc = "gc_await"
               /\ req'[r].gc.discovered = 1]_vars

\* A login failed on its discovery and was answered; the cache is empty and
\* the next login's getClient call is awaiting a discovery of its own.
C17_Witness ==
    /\ ConfigComplete
    /\ last.kind = "login" /\ last.outcome = "error"
    /\ client = NoClient
    /\ nObjects = 0
    /\ \E r \in Logins : req[r].pc = "gc_await" /\ req[r].gc.discovered = 1

\* Callbacks whose exchange went to the retry.
Retried == {r \in Callbacks : Len(req[r].calls) = 2}

\* C18: the retry invokes originalCallback with the redirect URI and the
\* parameters of the first attempt, code and state among them, and with
\* every check of the first attempt unchanged, the expected state among
\* them; the one difference is the check response_type = 'code', added.
C18_RetryKeepsChecks ==
    \A r \in Callbacks :
       /\ Len(req[r].calls) = req[r].attempts
       /\ req[r].attempts >= 1 =>
             /\ req[r].calls[1].redirectUri = RedirectUri
             /\ req[r].calls[1].parameters = [code |-> "code", state |-> req[r].state]
             /\ req[r].calls[1].checks = [state |-> req[r].state]
       /\ r \in Retried =>
             LET first == req[r].calls[1]
                 again == req[r].calls[2]
             IN  /\ again.redirectUri = first.redirectUri
                 /\ again.parameters = first.parameters
                 /\ DOMAIN again.checks = DOMAIN first.checks \cup {"response_type"}
                 /\ \A k \in DOMAIN first.checks : again.checks[k] = first.checks[k]
                 /\ again.checks["response_type"] = "code"
                 /\ "response_type" \notin DOMAIN first.checks
                 /\ again.checks["state"] = req[r].state

\* An exchange was retried.
C18_Witness ==
    \E r \in Retried : /\ IsIssMissing(req[r].firstErr)
                       /\ req[r].state \in known

\* Runs whose status request is settled and did not report enabled.
NotEnabled == {k \in Started : run[k].asked /\ run[k].pc = "done" /\ ~run[k].enabled}

\* C19: a run whose status request is rejected, resolves with nothing to read
\* enabled from, or reports not enabled, clears nothing and does not
\* navigate; it logs the failure, if there is one, and sets isChecking to
\* false; and no rejection ever leaves checkOidcAndRedirect.
C19_StatusFailureStops ==
    /\ [](/\ unhandled = 0
          /\ \A k \in NotEnabled :
                /\ isChecking = FALSE
                /\ run[k].log =
                      IF run[k].failed
                      THEN <<"getOidcStatus", "console.error", "setIsChecking(false)">>
                      ELSE <<"getOidcStatus", "setIsChecking(false)">>)
    /\ [][\A k \in Runs :
            (Settling(k) /\ ~run'[k].enabled) =>
               /\ storage' = storage
               /\ href' = href
               /\ isChecking' = FALSE
               /\ unhandled' = unhandled]_vars

\* The status request of the first run was rejected, that of the second
\* reported not enabled: the storages are in place, the page is where it was,
\* and the check is over.
C19_Witness ==
    /\ 1 \in NotEnabled /\ run[1].failed
    /\ 2 \in NotEnabled /\ ~run[2].failed
    /\ storage = [local |-> {"currentUser"}, session |-> {"draft"}]
    /\ href = AppUrl
    /\ ~isChecking

\* Runs that have returned; what a run did.
Done == {k \in Started : run[k].pc = "done"}
Navigated(k) == Has(run[k].log, "navigate")
Checked(k) == Has(run[k].log, "setIsChecking(false)")

\* C20, as stated: no run ends with the client navigated and isChecking
\* false.
C20_NeverNavigatedAndChecked ==
    \A k \in Done : ~(href = LoginUrl /\ isChecking = FALSE)

\* C20, amended: every run that returns has done exactly one of two things,
\* navigated to the login endpoint without setting isChecking, or set
\* isChecking to false without navigating; isChecking, once false, stays
\* false, also through the runs that follow, so the client is navigated with
\* isChecking false only when one run set it and another navigated, and the
\* first run alone ends navigated and checking, or not navigated and not
\* checking; and, its status request settling, every run returns or goes
\* with the page, and the client does not stay checking without navigating.
C20_RunOutcomes ==
    /\ [](\A k \in Done :
            /\ Navigated(k) # Checked(k)
            /\ Navigated(k) => href = LoginUrl
            /\ Checked(k) => isChecking = FALSE)
    /\ []((href = LoginUrl /\ isChecking = FALSE) =>
            \E j, k \in Done : j # k /\ Navigated(j) /\ Checked(k))
    /\ []((nRuns = 1 /\ 1 \in Done) =>
            \/ href = LoginUrl /\ isChecking = TRUE
            \/ href = AppUrl /\ isChecking = FALSE)
    /\ [][isChecking' => isChecking]_vars
    /\ \A k \in Runs :
          (run[k].pc = "await") ~> (run[k].pc \in {"done", "gone"})
    /\ (nRuns > 0) ~> (href = LoginUrl \/ isChecking = FALSE)

\* The page was loaded with an error indicator and the first run ended the
\* check; the query string changed, and the second run has navigated.
C20_Witness ==
    /\ nRuns = 2
    /\ Done = {1, 2}
    /\ Checked(1) /\ HasErrorParam(run[1].search)
    /\ Navigated(2)
    /\ href = LoginUrl
    /\ isChecking = FALSE

====
